---- MODULE Spec2Model ----
(***************************************************************************)
(* Model of wow-profile-copy (src/wow-profile-copy.go): the installation   *)
(* locator, the WTF identity enumerator and the migration engine of main.  *)
(* Byte strings are sequences of one-character strings; directory and file *)
(* names are TLA+ strings, converted by Bytes where the code converts them *)
(* with []byte(...).                                                       *)
(***************************************************************************)
EXTENDS Naturals, Sequences, FiniteSets, TLC

VARIABLES
  \* installation locator (isWowInstallDirectory, findAvailableVersions)
  rootState, rootEntries, locPc, isInstallDir, availableVersions,
  \* identity enumerator (getWtfConfigurations)
  tree, noReadDir, scanPc, configurations,
  \* migration engine (main, lines 393-515)
  srcConfig, dstConfig, goos, files, dirs, readonly, unreadable, unlistable,
  undeletable, pc, idx, pending, runs,
  \* observations of the run (what was printed, read and written)
  initial, afterFirst, copiedLog, copyWrote, walked, ioFailed, fatalAt, lastErr

locVars == <<rootState, rootEntries, locPc, isInstallDir, availableVersions>>
scanVars == <<tree, noReadDir, scanPc, configurations>>
migVars == <<srcConfig, dstConfig, goos, files, dirs, readonly, unreadable,
             unlistable, undeletable, pc, idx, pending, runs, initial,
             afterFirst, copiedLog, copyWrote, walked, ioFailed, fatalAt, lastErr>>
vars == <<locVars, scanVars, migVars>>

(***************************************************************************)
(* Bounds of the model.                                                    *)
(***************************************************************************)
MaxEntries == 3     \* entries of the candidate install directory
MaxNodes == 6       \* files and directories under WTF/Account
MaxNoRead == 1      \* directories whose listing fails
MaxFaults == 1      \* missing artifacts and permission faults of a migration
MaxRuns == 2        \* successive runs of the tool with the same selections

(***************************************************************************)
(* Byte strings.                                                           *)
(***************************************************************************)
HasPrefix(s, prefix) ==
  Len(s) >= Len(prefix) /\ SubSeq(s, 1, Len(prefix)) = prefix

HasSuffix(s, suffix) ==
  Len(s) >= Len(suffix) /\ SubSeq(s, Len(s) - Len(suffix) + 1, Len(s)) = suffix

Contains(s, substr) ==
  \E i \in 0..(Len(s) - Len(substr)) : SubSeq(s, i + 1, i + Len(substr)) = substr

\* bytes.ReplaceAll: the leftmost non-overlapping occurrences, left to right
RECURSIVE ReplaceAll(_, _, _)
ReplaceAll(s, old, new) ==
  IF Len(s) < Len(old) THEN s
  ELSE IF HasPrefix(s, old)
       THEN new \o ReplaceAll(SubSeq(s, Len(old) + 1, Len(s)), old, new)
       ELSE <<Head(s)>> \o ReplaceAll(Tail(s), old, new)

\* []byte(name) for the names of the model
Bytes(name) ==
  CASE name = "A1" ->
         <<"A", "1">>
    [] name = "A2" ->
         <<"A", "2">>
    [] name = "R1" ->
         <<"R", "1">>
    [] name = "Al" ->
         <<"A", "l">>
    [] name = "Bo" ->
         <<"B", "o">>
    [] name = ".lua" ->
         <<".", "l", "u", "a">>
    [] name = "A.lua" ->
         <<"A", ".", "l", "u", "a">>
    [] name = "A.lua.bak" ->
         <<"A", ".", "l", "u", "a", ".", "b", "a", "k">>
    [] name = "B.lua" ->
         <<"B", ".", "l", "u", "a">>
    [] name = "O.lua" ->
         <<"O", ".", "l", "u", "a">>
    [] name = "SavedVariables" ->
         <<"S", "a", "v", "e", "d", "V", "a", "r", "i", "a", "b", "l", "e", "s">>
    [] name = "bindings-cache.wtf" ->
         <<"b", "i", "n", "d", "i", "n", "g", "s", "-", "c", "a", "c", "h", "e", ".", "w", "t", "f">>
    [] name = "config-cache.wtf" ->
         <<"c", "o", "n", "f", "i", "g", "-", "c", "a", "c", "h", "e", ".", "w", "t", "f">>
    [] name = "macros-cache.txt" ->
         <<"m", "a", "c", "r", "o", "s", "-", "c", "a", "c", "h", "e", ".", "t", "x", "t">>
    [] name = "AddOns.txt" ->
         <<"A", "d", "d", "O", "n", "s", ".", "t", "x", "t">>
    [] name = "layout-local.txt" ->
         <<"l", "a", "y", "o", "u", "t", "-", "l", "o", "c", "a", "l", ".", "t", "x", "t">>
    [] name = "cache.md5" ->
         <<"c", "a", "c", "h", "e", ".", "m", "d", "5">>
    [] name = "WTF" ->
         <<"W", "T", "F">>
    [] name = "Account" ->
         <<"A", "c", "c", "o", "u", "n", "t">>
    [] name = "_retail_" ->
         <<"_", "r", "e", "t", "a", "i", "l", "_">>

Dash == <<"-">>
SpacedDash == <<" ", "-", " ">>

(***************************************************************************)
(* Installation locator.                                                   *)
(***************************************************************************)
_wowInstanceFolderNames ==
  {"_classic_", "_classic_ptr_", "_classic_beta_", "_classic_era_",
   "_classic_era_ptr", "_retail_", "_ptr_"}

\* names a candidate directory may hold, in the order os.ReadDir lists them
RootNames ==
  <<"Interface", "_classic_", "_classic_beta_", "_classic_era_",
    "_classic_era_ptr", "_classic_era_ptr_", "_classic_ptr_", "_ptr_", "_retail_">>

RECURSIVE ListRoot(_)
ListRoot(i) ==
  IF i > Len(RootNames) THEN <<>>
  ELSE (IF RootNames[i] \in DOMAIN rootEntries
        THEN <<[name |-> RootNames[i], isDir |-> rootEntries[RootNames[i]] = "dir"]>>
        ELSE <<>>) \o ListRoot(i + 1)

\* os.ReadDir(dir) of the candidate directory
ReadRootDir ==
  IF rootState = "ok" THEN [err |-> FALSE, entries |-> ListRoot(1)]
  ELSE [err |-> TRUE, entries |-> <<>>]

IsInstanceEntryNoDirCheck(file) == file.name \in _wowInstanceFolderNames

IsInstanceEntry(file) == file.isDir /\ file.name \in _wowInstanceFolderNames

isWowInstallDirectory ==
  LET r == ReadRootDir
  IN IF r.err THEN FALSE
     ELSE \E i \in 1..Len(r.entries) : IsInstanceEntry(r.entries[i])

RECURSIVE VersionsOf(_)
VersionsOf(entries) ==
  IF entries = <<>> THEN <<>>
  ELSE (IF IsInstanceEntry(Head(entries)) THEN <<Head(entries).name>> ELSE <<>>)
       \o VersionsOf(Tail(entries))

findAvailableVersions ==
  LET r == ReadRootDir
  IN IF r.err THEN [fatal |-> TRUE, versions |-> <<>>]
     ELSE [fatal |-> FALSE, versions |-> VersionsOf(r.entries)]

LocInit ==
  /\ rootState = "ok"
  /\ rootEntries = <<>>
  /\ locPc = "idle"
  /\ isInstallDir = FALSE
  /\ availableVersions = <<>>

RootName(i) == RootNames[i]

\* the environment: the candidate directory's contents before the tool runs
AddRootEntry ==
  /\ locPc = "idle"
  /\ rootState = "ok"
  /\ Cardinality(DOMAIN rootEntries) < MaxEntries
  /\ \E i \in 1..Len(RootNames), kind \in {"dir", "file"} :
       /\ RootName(i) \notin DOMAIN rootEntries
       /\ rootEntries' = (RootName(i) :> kind) @@ rootEntries
  /\ UNCHANGED <<rootState, locPc, isInstallDir, availableVersions>>
  /\ UNCHANGED <<scanVars, migVars>>

\* the environment: the path does not exist, or cannot be listed
SpoilRoot ==
  /\ locPc = "idle"
  /\ rootState = "ok"
  /\ \E st \in {"missing", "unreadable", "notdir"} :
       /\ rootState' = st
       /\ rootEntries' = IF st = "unreadable" THEN rootEntries ELSE <<>>
  /\ UNCHANGED <<locPc, isInstallDir, availableVersions>>
  /\ UNCHANGED <<scanVars, migVars>>

CheckInstallDirectory ==
  /\ locPc = "idle"
  /\ isInstallDir' = isWowInstallDirectory
  /\ locPc' = "checked"
  /\ UNCHANGED <<rootState, rootEntries, availableVersions>>
  /\ UNCHANGED <<scanVars, migVars>>

FindVersions ==
  /\ locPc = "checked"
  /\ LET r == findAvailableVersions
     IN /\ availableVersions' = r.versions
        /\ locPc' = IF r.fatal THEN "fatal" ELSE "versions"
  /\ UNCHANGED <<rootState, rootEntries, isInstallDir>>
  /\ UNCHANGED <<scanVars, migVars>>


(***************************************************************************)
(* Identity enumerator. Paths are relative to wtfPath, which is            *)
(* <installDirectory>/<version>/WTF/Account.                               *)
(***************************************************************************)
Reserved == "SavedVariables"

\* names found under WTF/Account, in the order os.ReadDir lists them
ScanNames == <<"ACC1", "ACC2", "Hero", "Mage", "Realm-A", "SavedVariables">>
LevelNames(depth) ==
  CASE depth = 1 -> {"ACC1", "ACC2", "SavedVariables"}
    [] depth = 2 -> {"Realm-A", "SavedVariables"}
    [] OTHER -> {"Hero", "Mage", "SavedVariables"}

RECURSIVE ListTree(_, _)
ListTree(path, i) ==
  IF i > Len(ScanNames) THEN <<>>
  ELSE (IF Append(path, ScanNames[i]) \in DOMAIN tree
        THEN <<[name |-> ScanNames[i],
                isDir |-> tree[Append(path, ScanNames[i])] = "dir"]>>
        ELSE <<>>) \o ListTree(path, i + 1)

\* os.ReadDir(filepath.Join(wtfPath, path...))
ReadTreeDir(path) ==
  IF path \in noReadDir THEN [err |-> TRUE, entries |-> <<>>]
  ELSE [err |-> FALSE, entries |-> ListTree(path, 1)]

FatalScan == [fatal |-> TRUE, configurations |-> <<>>]

IsAccount(acct) == acct.isDir /\ acct.name # Reserved

IsRealmAnyDir(server) == server.isDir
IsRealm(server) == server.isDir /\ server.name # Reserved

IsCharacterAnyEntry(character) == TRUE
IsCharacter(character) == character.isDir

RECURSIVE CharacterLoop(_, _, _)
CharacterLoop(acct, server, characterFiles) ==
  IF characterFiles = <<>> THEN <<>>
  ELSE (IF IsCharacter(Head(characterFiles))
        THEN <<[account |-> acct, server |-> server,
                character |-> Head(characterFiles).name]>>
        ELSE <<>>) \o CharacterLoop(acct, server, Tail(characterFiles))

RECURSIVE ServerLoop(_, _)
ServerLoop(acct, serverFiles) ==
  IF serverFiles = <<>> THEN [fatal |-> FALSE, configurations |-> <<>>]
  ELSE LET server == Head(serverFiles)
           rest == ServerLoop(acct, Tail(serverFiles))
       IN IF IsRealm(server)
          THEN LET r == ReadTreeDir(<<acct, server.name>>)
               IN IF r.err \/ rest.fatal THEN FatalScan
                  ELSE [fatal |-> FALSE,
                        configurations |->
                          CharacterLoop(acct, server.name, r.entries)
                            \o rest.configurations]
          ELSE rest

RECURSIVE AccountLoop(_)
AccountLoop(wtfFiles) ==
  IF wtfFiles = <<>> THEN [fatal |-> FALSE, configurations |-> <<>>]
  ELSE LET acct == Head(wtfFiles)
           rest == AccountLoop(Tail(wtfFiles))
       IN IF IsAccount(acct)
          THEN LET r == ReadTreeDir(<<acct.name>>)
                   found == IF r.err THEN FatalScan
                            ELSE ServerLoop(acct.name, r.entries)
               IN IF found.fatal \/ rest.fatal THEN FatalScan
                  ELSE [fatal |-> FALSE,
                        configurations |->
                          found.configurations \o rest.configurations]
          ELSE rest

getWtfConfigurations ==
  LET r == ReadTreeDir(<<>>)
  IN IF r.err THEN FatalScan ELSE AccountLoop(r.entries)

ScanInit ==
  /\ tree = <<>>
  /\ noReadDir = {}
  /\ scanPc = "idle"
  /\ configurations = <<>>

\* the environment: the WTF tree the game client left behind
AddTreeNode ==
  /\ scanPc = "idle"
  /\ Cardinality(DOMAIN tree) < MaxNodes
  /\ \E parent \in {<<>>} \cup {q \in DOMAIN tree : tree[q] = "dir" /\ Len(q) < 3},
        kind \in {"dir", "file"} :
       \E name \in LevelNames(Len(parent) + 1) :
         /\ Append(parent, name) \notin DOMAIN tree
         /\ tree' = (Append(parent, name) :> kind) @@ tree
  /\ UNCHANGED <<noReadDir, scanPc, configurations>>
  /\ UNCHANGED <<locVars, migVars>>

\* the environment: a directory that cannot be listed
DenyReadDir ==
  /\ scanPc = "idle"
  /\ Cardinality(noReadDir) < MaxNoRead
  /\ \E q \in {<<>>} \cup {q \in DOMAIN tree : tree[q] = "dir"} :
       /\ q \notin noReadDir
       /\ noReadDir' = noReadDir \cup {q}
  /\ UNCHANGED <<tree, scanPc, configurations>>
  /\ UNCHANGED <<locVars, migVars>>

Scan ==
  /\ scanPc = "idle"
  /\ LET r == getWtfConfigurations
     IN /\ configurations' = r.configurations
        /\ scanPc' = IF r.fatal THEN "fatal" ELSE "scanned"
  /\ UNCHANGED <<tree, noReadDir>>
  /\ UNCHANGED <<locVars, migVars>>


(***************************************************************************)
(* Migration engine: the file system.  A path is the sequence of its       *)
(* components below wow.installDirectory.                                  *)
(***************************************************************************)
\* every name of the model, in byte order (the order of os.ReadDir and WalkDir)
NameOrder ==
  <<"A.lua", "A.lua.bak", "A1", "A2", "Account", "AddOns.txt", "Al", "B.lua",
    "Bo", "O.lua", "R1", "SavedVariables", "WTF", "_retail_",
    "bindings-cache.wtf", "cache.md5", "config-cache.wtf", "layout-local.txt",
    "macros-cache.txt">>

Join(path, name) == Append(path, name)
Base(path) == path[Len(path)]
Dir(path) == SubSeq(path, 1, Len(path) - 1)
Under(path, root) == HasPrefix(path, root)

AccountPath(t) == <<t.version, "WTF", "Account", t.wtf.account>>
CharacterPath(t) == Join(Join(AccountPath(t), t.wtf.server), t.wtf.character)

srcWtfAccountPath == AccountPath(srcConfig)
dstWtfAccountPath == AccountPath(dstConfig)
srcWtfCharacterPath == CharacterPath(srcConfig)
dstWtfCharacterPath == CharacterPath(dstConfig)

accountFilesToCopy == <<"bindings-cache.wtf", "config-cache.wtf", "macros-cache.txt">>
characterFilesToCopy ==
  <<"AddOns.txt", "config-cache.wtf", "layout-local.txt", "macros-cache.txt">>

svFileRegexMatch(name) == HasSuffix(Bytes(name), Bytes(".lua"))

\* os.ReadDir: the names of the files directly in dir, sorted by name
RECURSIVE ListFiles(_, _)
ListFiles(dir, i) ==
  IF i > Len(NameOrder) THEN <<>>
  ELSE (IF Join(dir, NameOrder[i]) \in DOMAIN files THEN <<NameOrder[i]>> ELSE <<>>)
       \o ListFiles(dir, i + 1)

ReadDir(dir) ==
  IF dir \notin dirs THEN [err |-> TRUE, errno |-> "ENOENT", names |-> <<>>]
  ELSE IF dir \in unlistable THEN [err |-> TRUE, errno |-> "EACCES", names |-> <<>>]
  ELSE [err |-> FALSE, errno |-> "", names |-> ListFiles(dir, 1)]

\* copyFile that creates a missing source instead of failing on it
copyFileCreatesSource(src, dest) ==
  IF src \in DOMAIN files /\ src \in unreadable
  THEN [err |-> TRUE, errno |-> "EACCES", files |-> files]
  ELSE IF Dir(dest) \notin dirs
  THEN [err |-> TRUE, errno |-> "ENOENT", files |-> files]
  ELSE IF dest \in readonly
  THEN [err |-> TRUE, errno |-> "EACCES", files |-> files]
  ELSE LET opened == files @@ (src :> <<>>)
           created == (dest :> <<>>) @@ opened
       IN [err |-> FALSE, errno |-> "",
           files |-> [created EXCEPT ![dest] = created[src]]]

\* os.Open(src); os.Create(dest), which truncates; io.Copy
copyFile(src, dest) ==
  IF src \notin DOMAIN files
  THEN [err |-> TRUE, errno |-> "ENOENT", files |-> files]
  ELSE IF src \in unreadable
  THEN [err |-> TRUE, errno |-> "EACCES", files |-> files]
  ELSE IF Dir(dest) \notin dirs
  THEN [err |-> TRUE, errno |-> "ENOENT", files |-> files]
  ELSE IF dest \in readonly
  THEN [err |-> TRUE, errno |-> "EACCES", files |-> files]
  ELSE LET created == (dest :> <<>>) @@ files
       IN [err |-> FALSE, errno |-> "",
           files |-> [created EXCEPT ![dest] = created[src]]]

\* filepath.WalkDir in lexical order, as far as the callback acts: the paths
\* with the suffix .lua.  A directory that cannot be listed is passed to the
\* callback with its error, which the callback does not look at.
RECURSIVE WalkFrom(_, _)
WalkFrom(dir, i) ==
  IF i > Len(NameOrder) THEN <<>>
  ELSE LET path == Join(dir, NameOrder[i])
       IN (IF path \in DOMAIN files
           THEN (IF HasSuffix(Bytes(Base(path)), Bytes(".lua")) THEN <<path>> ELSE <<>>)
           ELSE IF path \in dirs /\ path \notin unlistable
           THEN WalkFrom(path, 1)
           ELSE <<>>) \o WalkFrom(dir, i + 1)

WalkRootSource == srcWtfAccountPath
WalkRoot == dstWtfAccountPath

WalkDir == IF WalkRoot \in unlistable THEN <<>> ELSE WalkFrom(WalkRoot, 1)

\* whether WalkDir meets a directory it cannot list
RECURSIVE WalkFails(_, _)
WalkFails(dir, i) ==
  IF i > Len(NameOrder) THEN FALSE
  ELSE LET path == Join(dir, NameOrder[i])
       IN \/ (path \in dirs /\ path \in unlistable)
          \/ (path \in dirs /\ path \notin unlistable /\ WalkFails(path, 1))
          \/ WalkFails(dir, i + 1)

\* the bytes.ReplaceAll chain of the walk callback: each call starts again
\* from data, so the value written is the third call's
Substitute(data) ==
  LET c1 == Bytes(srcConfig.wtf.character)
      s1 == Bytes(srcConfig.wtf.server)
      c2 == Bytes(dstConfig.wtf.character)
      s2 == Bytes(dstConfig.wtf.server)
      a2 == Bytes(dstConfig.wtf.account)
      first == ReplaceAll(data, c1 \o Dash \o s1, c2 \o Dash \o s2)
      second == ReplaceAll(data, c1 \o SpacedDash \o s1, c2 \o SpacedDash \o s2)
      third == ReplaceAll(data, s1 \o SpacedDash \o c1, s2 \o SpacedDash \o a2)
  IN third

\* the text of err.Error() for a path that does not exist
NotExistText(os) ==
  IF os = "windows" THEN "The system cannot find the file specified."
  ELSE "no such file or directory"

\* strings.Contains(err.Error(), "no such file or directory")
IsNoSuchFile(errno) ==
  errno = "ENOENT" /\ NotExistText(goos) = "no such file or directory"

\* os.Remove
Remove(path) ==
  IF path \notin DOMAIN files
  THEN [err |-> TRUE, errno |-> "ENOENT", files |-> files]
  ELSE IF path \in undeletable
  THEN [err |-> TRUE, errno |-> "EACCES", files |-> files]
  ELSE [err |-> FALSE, errno |-> "",
        files |-> [q \in DOMAIN files \ {path} |-> files[q]]]

(***************************************************************************)
(* Migration engine: the selections and the tree the run starts from.      *)
(***************************************************************************)
Identity(a, s, c) ==
  [version |-> "_retail_", wtf |-> [account |-> a, server |-> s, character |-> c]]

SrcTarget == Identity("A1", "R1", "Al")
DstTargets == {Identity(a, s, c) : a \in {"A1", "A2"}, s \in {"R1", "Al"}, c \in {"Al", "Bo"}}
FaultDstTargets == {Identity("A2", "R1", "Bo"), Identity("A1", "R1", "Bo")}

NoFile == <<"NoFile">>
Sep == <<";">>

\* saved-variable contents naming the source character in the three stylings
AllStylings ==
  LET c1 == Bytes(SrcTarget.wtf.character)
      s1 == Bytes(SrcTarget.wtf.server)
  IN c1 \o Dash \o s1 \o Sep \o c1 \o SpacedDash \o s1 \o Sep \o s1 \o SpacedDash \o c1
\* the server named twice before the character
Doubled ==
  LET c1 == Bytes(SrcTarget.wtf.character)
      s1 == Bytes(SrcTarget.wtf.server)
  IN s1 \o SpacedDash \o s1 \o SpacedDash \o c1
Plain == <<"x">>
LuaContents == {NoFile, AllStylings, Doubled, Plain}

SavedVariables(scope) == Join(scope, "SavedVariables")

FixedPaths(t) ==
  {Join(AccountPath(t), accountFilesToCopy[i]) : i \in 1..Len(accountFilesToCopy)}
    \cup {Join(CharacterPath(t), characterFilesToCopy[i]) :
            i \in 1..Len(characterFilesToCopy)}

OneFile(path, content) ==
  [q \in (IF content = NoFile THEN {} ELSE {path}) |-> content]

BaseFiles(dst, luaA, luaB, luaO, caches) ==
  [q \in FixedPaths(SrcTarget) |-> Bytes(Base(q))]
    @@ [q \in FixedPaths(dst) |-> <<"o", "l", "d">>]
    @@ OneFile(Join(SavedVariables(AccountPath(SrcTarget)), "A.lua.bak"), Plain)
    @@ OneFile(Join(SavedVariables(AccountPath(SrcTarget)), "A.lua"), luaA)
    @@ OneFile(Join(SavedVariables(CharacterPath(SrcTarget)), "B.lua"), luaB)
    @@ OneFile(Join(SavedVariables(CharacterPath(dst)), "O.lua"), luaO)
    @@ [q \in caches |-> <<"m", "d", "5">>]

CachePaths(dst) == {Join(AccountPath(dst), "cache.md5"), Join(CharacterPath(dst), "cache.md5")}

BaseDirs(dst) ==
  LET scopes == {AccountPath(SrcTarget), CharacterPath(SrcTarget),
                 AccountPath(dst), CharacterPath(dst)}
  IN scopes \cup {Dir(CharacterPath(SrcTarget)), Dir(CharacterPath(dst))}
       \cup {SavedVariables(d) : d \in scopes}

FaultUniverse(dst) ==
  {[kind |-> "missing", path |-> q] : q \in FixedPaths(SrcTarget)}
    \cup {[kind |-> "nodir", path |-> SavedVariables(d)] :
            d \in {AccountPath(SrcTarget), CharacterPath(SrcTarget),
                   AccountPath(dst), CharacterPath(dst)}}
    \cup {[kind |-> "readonly", path |-> q] :
            q \in {Join(SavedVariables(CharacterPath(dst)), "O.lua"),
                   Join(AccountPath(dst), "bindings-cache.wtf")}}
    \cup {[kind |-> "unreadable", path |-> q] :
            q \in {Join(SavedVariables(AccountPath(SrcTarget)), "A.lua"),
                   Join(SavedVariables(CharacterPath(dst)), "O.lua")}}
    \cup {[kind |-> "unlistable", path |-> d] :
            d \in {SavedVariables(AccountPath(SrcTarget)),
                   SavedVariables(CharacterPath(dst))}}
    \cup {[kind |-> "undeletable", path |-> q] : q \in CachePaths(dst)}

RECURSIVE SubsetsUpTo(_, _)
SubsetsUpTo(U, k) ==
  IF k = 0 THEN {{}}
  ELSE LET smaller == SubsetsUpTo(U, k - 1)
       IN smaller \cup {f \cup {x} : f \in smaller, x \in U}

PathsOf(faults, kind) == {f.path : f \in {g \in faults : g.kind = kind}}

MigStart(dst, base, faults, os) ==
  LET gone == PathsOf(faults, "missing")
      nodirs == PathsOf(faults, "nodir")
      kept == {q \in DOMAIN base : q \notin gone /\ Dir(q) \notin nodirs}
  IN /\ srcConfig = SrcTarget
     /\ dstConfig = dst
     /\ goos = os
     /\ files = [q \in kept |-> base[q]]
     /\ initial = [q \in kept |-> base[q]]
     /\ dirs = BaseDirs(dst) \ nodirs
     /\ readonly = PathsOf(faults, "readonly")
     /\ unreadable = PathsOf(faults, "unreadable")
     /\ unlistable = PathsOf(faults, "unlistable")
     /\ undeletable = PathsOf(faults, "undeletable")
     /\ pc = "account"
     /\ idx = 1
     /\ pending = <<>>
     /\ runs = 1
     /\ afterFirst = <<>>
     /\ copiedLog = <<>>
     /\ copyWrote = <<>>
     /\ walked = <<>>
     /\ ioFailed = FALSE
     /\ fatalAt = [phase |-> "", path |-> <<>>]
     /\ lastErr = ""

\* a healthy tree: any destination, any saved-variable contents
MigInitHealthy ==
  \E dst \in DstTargets, luaA \in LuaContents, luaB \in LuaContents,
     luaO \in LuaContents, os \in {"linux", "darwin", "windows"} :
    \E caches \in SUBSET CachePaths(dst) :
      MigStart(dst, BaseFiles(dst, luaA, luaB, luaO, caches), {}, os)

\* a tree with missing artifacts and permission faults
MigInitFaulty ==
  \E dst \in FaultDstTargets, os \in {"linux", "windows"} :
    \E caches \in SUBSET CachePaths(dst),
       faults \in SubsetsUpTo(FaultUniverse(dst), MaxFaults) \ {{}} :
      MigStart(dst, BaseFiles(dst, AllStylings, AllStylings, AllStylings, caches),
               faults, os)

MigInit == MigInitHealthy \/ MigInitFaulty

MigIdle ==
  MigStart(SrcTarget, BaseFiles(SrcTarget, NoFile, NoFile, NoFile, {}), {}, "linux")

(***************************************************************************)
(* Migration engine: the steps of main from line 393 on.  pc = "fatal" is  *)
(* log.Fatal; pc = "done" is "All files copied successfully!".             *)
(***************************************************************************)
envVars == <<srcConfig, dstConfig, goos, dirs, readonly, unreadable, unlistable,
             undeletable, initial, runs, afterFirst, locVars, scanVars>>

\* log.Fatal(err)
Fatal(phase, path, errno) ==
  /\ pc' = "fatal"
  /\ fatalAt' = [phase |-> phase, path |-> path]
  /\ lastErr' = errno
  /\ ioFailed' = TRUE

\* one iteration of a copy loop: copyFile, log.Fatal on error, "Copied src"
CopyStep(phase, src, dst, nextPc, nextIdx, nextPending) ==
  LET r == copyFile(src, dst)
  IN IF r.err
     THEN /\ Fatal(phase, src, r.errno)
          /\ UNCHANGED <<files, copiedLog, copyWrote, idx, pending, walked>>
     ELSE /\ files' = r.files
          /\ copiedLog' = Append(copiedLog, src)
          /\ copyWrote' = (dst :> r.files[dst]) @@ copyWrote
          /\ pc' = nextPc
          /\ idx' = nextIdx
          /\ pending' = nextPending
          /\ UNCHANGED <<walked, ioFailed, fatalAt, lastErr>>

CopyAccountFile ==
  /\ pc = "account"
  /\ LET file == accountFilesToCopy[idx]
         last == idx = Len(accountFilesToCopy)
     IN CopyStep("account", Join(srcWtfAccountPath, file), Join(dstWtfAccountPath, file),
                 IF last THEN "character" ELSE "account",
                 IF last THEN 1 ELSE idx + 1, pending)
  /\ UNCHANGED envVars

CopyCharacterFile ==
  /\ pc = "character"
  /\ LET file == characterFilesToCopy[idx]
         last == idx = Len(characterFilesToCopy)
     IN CopyStep("character", Join(srcWtfCharacterPath, file),
                 Join(dstWtfCharacterPath, file),
                 IF last THEN "accountSV" ELSE "character",
                 IF last THEN 1 ELSE idx + 1, pending)
  /\ UNCHANGED envVars

\* os.ReadDir of a source SavedVariables directory
ListSavedVariables(phase, scope, loopPc) ==
  LET r == ReadDir(SavedVariables(scope))
  IN IF r.err
     THEN /\ Fatal(phase, SavedVariables(scope), r.errno)
          /\ UNCHANGED <<files, copiedLog, copyWrote, idx, pending, walked>>
     ELSE /\ pending' = r.names
          /\ pc' = loopPc
          /\ UNCHANGED <<files, copiedLog, copyWrote, idx, walked, ioFailed,
                         fatalAt, lastErr>>

\* one iteration over the listing, or the end of the loop
CopySavedVariable(phase, srcScope, dstScope, loopPc, afterPc) ==
  IF pending = <<>>
  THEN /\ pc' = afterPc
       /\ UNCHANGED <<files, copiedLog, copyWrote, idx, pending, walked, ioFailed,
                      fatalAt, lastErr>>
  ELSE IF svFileRegexMatch(Head(pending))
  THEN CopyStep(phase, Join(SavedVariables(srcScope), Head(pending)),
                Join(SavedVariables(dstScope), Head(pending)),
                loopPc, idx, Tail(pending))
  ELSE /\ pending' = Tail(pending)
       /\ UNCHANGED <<files, copiedLog, copyWrote, idx, pc, walked, ioFailed,
                      fatalAt, lastErr>>

ListAccountSavedVariables ==
  /\ pc = "accountSV"
  /\ ListSavedVariables("accountSV", srcWtfAccountPath, "copyAccountSV")
  /\ UNCHANGED envVars

CopyAccountSavedVariable ==
  /\ pc = "copyAccountSV"
  /\ CopySavedVariable("accountSV", srcWtfAccountPath, dstWtfAccountPath,
                       "copyAccountSV", "characterSV")
  /\ UNCHANGED envVars

ListCharacterSavedVariables ==
  /\ pc = "characterSV"
  /\ ListSavedVariables("characterSV", srcWtfCharacterPath, "copyCharacterSV")
  /\ UNCHANGED envVars

CopyCharacterSavedVariable ==
  /\ pc = "copyCharacterSV"
  /\ CopySavedVariable("characterSV", srcWtfCharacterPath, dstWtfCharacterPath,
                       "copyCharacterSV", "walk")
  /\ UNCHANGED envVars

\* filepath.WalkDir starts; its error result is dropped
StartWalk ==
  /\ pc = "walk"
  /\ pending' = WalkDir
  /\ pc' = "walking"
  /\ ioFailed' = (ioFailed \/ WalkRoot \in unlistable \/ WalkFails(WalkRoot, 1))
  /\ UNCHANGED <<files, copiedLog, copyWrote, idx, walked, fatalAt, lastErr>>
  /\ UNCHANGED envVars

\* the callback on one .lua path: os.ReadFile, the ReplaceAll chain,
\* os.WriteFile with its error dropped; or the end of the walk
WalkStep ==
  /\ pc = "walking"
  /\ IF pending = <<>>
     THEN /\ pc' = "cleanAccount"
          /\ UNCHANGED <<files, pending, walked, ioFailed, fatalAt, lastErr>>
     ELSE LET path == Head(pending)
          IN IF path \notin DOMAIN files \/ path \in unreadable
             THEN /\ Fatal("walk", path,
                           IF path \in DOMAIN files THEN "EACCES" ELSE "ENOENT")
                  /\ UNCHANGED <<files, pending, walked>>
             ELSE LET data == files[path]
                      updated == Substitute(data)
                      writeErr == path \in readonly
                  IN /\ files' = IF writeErr THEN files
                                 ELSE [files EXCEPT ![path] = updated]
                     /\ walked' = (path :> [data |-> data, updated |-> updated,
                                            written |-> ~writeErr]) @@ walked
                     /\ ioFailed' = (ioFailed \/ writeErr)
                     /\ pending' = Tail(pending)
                     /\ UNCHANGED <<pc, fatalAt, lastErr>>
  /\ UNCHANGED <<copiedLog, copyWrote, idx>>
  /\ UNCHANGED envVars

\* os.Remove of a cache.md5, an error tolerated when its text says the file
\* does not exist
RemoveCache(phase, path, nextPc) ==
  LET r == Remove(path)
  IN IF r.err /\ ~IsNoSuchFile(r.errno)
     THEN /\ pc' = "fatal"
          /\ fatalAt' = [phase |-> phase, path |-> path]
          /\ lastErr' = r.errno
          /\ ioFailed' = (ioFailed \/ r.errno # "ENOENT")
          /\ UNCHANGED files
     ELSE /\ files' = r.files
          /\ pc' = nextPc
          /\ UNCHANGED <<ioFailed, fatalAt, lastErr>>

CleanAccountCache ==
  /\ pc = "cleanAccount"
  /\ RemoveCache("cleanAccount", Join(dstWtfAccountPath, "cache.md5"), "cleanCharacter")
  /\ UNCHANGED <<copiedLog, copyWrote, idx, pending, walked>>
  /\ UNCHANGED envVars

CleanCharacterCache ==
  /\ pc = "cleanCharacter"
  /\ RemoveCache("cleanCharacter", Join(dstWtfCharacterPath, "cache.md5"), "done")
  /\ UNCHANGED <<copiedLog, copyWrote, idx, pending, walked>>
  /\ UNCHANGED envVars

\* the tool is started again and given the same selections
Rerun ==
  /\ pc = "done"
  /\ runs < MaxRuns
  /\ runs' = runs + 1
  /\ afterFirst' = IF runs = 1 THEN files ELSE afterFirst
  /\ pc' = "account"
  /\ idx' = 1
  /\ pending' = <<>>
  /\ copiedLog' = <<>>
  /\ copyWrote' = <<>>
  /\ walked' = <<>>
  /\ UNCHANGED <<srcConfig, dstConfig, goos, files, dirs, readonly, unreadable,
                 unlistable, undeletable, initial, ioFailed, fatalAt, lastErr,
                 locVars, scanVars>>

(***************************************************************************)
(* Specifications.                                                         *)
(***************************************************************************)
Init == LocInit /\ ScanInit /\ MigInit
Next ==
  \/ CopyAccountFile
  \/ CopyCharacterFile
  \/ ListAccountSavedVariables
  \/ CopyAccountSavedVariable
  \/ ListCharacterSavedVariables
  \/ CopyCharacterSavedVariable
  \/ StartWalk
  \/ WalkStep
  \/ CleanAccountCache
  \/ CleanCharacterCache
  \/ Rerun
Spec == Init /\ [][Next]_vars

InitScan == LocInit /\ ScanInit /\ MigIdle
NextScan == AddTreeNode \/ DenyReadDir \/ Scan
SpecScan == InitScan /\ [][NextScan]_vars

InitLocate == LocInit /\ ScanInit /\ MigIdle
NextLocate == AddRootEntry \/ SpoilRoot \/ CheckInstallDirectory \/ FindVersions
SpecLocate == InitLocate /\ [][NextLocate]_vars

(***************************************************************************)
(* Properties of the installation locator (SpecLocate).                    *)
(***************************************************************************)
HasVersionDirectory ==
  /\ rootState = "ok"
  /\ \E name \in DOMAIN rootEntries :
       rootEntries[name] = "dir" /\ name \in _wowInstanceFolderNames

\* C8: isWowInstallDirectory returns true exactly when the path is a readable
\* directory with a direct child directory named by a recognized version
\* identifier; a missing or unreadable path, or one whose recognized names are
\* all regular files, gives false and no error.
C8_InstallRootIff ==
  locPc # "idle" => isInstallDir = HasVersionDirectory

C8_Witness ==
  /\ locPc = "checked"
  /\ isInstallDir
  /\ \E name \in DOMAIN rootEntries :
       rootEntries[name] = "file" /\ name \in _wowInstanceFolderNames

(***************************************************************************)
(* Properties of the identity enumerator (SpecScan).                       *)
(***************************************************************************)
Returned == {configurations[i] : i \in 1..Len(configurations)}

AsWtf(path) == [account |-> path[1], server |-> path[2], character |-> path[3]]

\* the account/server/character directories on disk
TriplesOnDisk == {q \in DOMAIN tree : Len(q) = 3 /\ tree[q] = "dir"}

\* C1 as stated: the result is exactly the set of directory triples on disk.
C1_ExactlyTriplesOnDisk ==
  scanPc = "scanned" => Returned = {AsWtf(q) : q \in TriplesOnDisk}

\* C1 as amended: the result is exactly the set of directory triples on disk
\* whose account and server directories are not named SavedVariables, each
\* returned once.
C1_ExactlyUnreservedTriples ==
  scanPc = "scanned" =>
    /\ Returned = {AsWtf(q) : q \in {t \in TriplesOnDisk :
                                       t[1] # Reserved /\ t[2] # Reserved}}
    /\ Cardinality(Returned) = Len(configurations)

\* a character found beside a directory triple below WTF/Account/SavedVariables
C1_Witness ==
  /\ scanPc = "scanned"
  /\ configurations # <<>>
  /\ \E q \in TriplesOnDisk : q[1] = Reserved

\* C6: no returned triple has SavedVariables as its account or its server,
\* whatever the tree holds; a character may have any name.
C6_NoReservedAccountOrServer ==
  \A i \in 1..Len(configurations) :
    configurations[i].account # Reserved /\ configurations[i].server # Reserved

\* a SavedVariables directory with a subdirectory, beside a character found
C6_Witness ==
  /\ scanPc = "scanned"
  /\ configurations # <<>>
  /\ \E q \in DOMAIN tree :
       /\ Len(q) = 3
       /\ tree[q] = "dir"
       /\ q[2] = Reserved

(***************************************************************************)
(* Properties of the migration engine (Spec).                              *)
(***************************************************************************)
SourcePair(sep) == Bytes(srcConfig.wtf.character) \o sep \o Bytes(srcConfig.wtf.server)
DestinationPair(sep) == Bytes(dstConfig.wtf.character) \o sep \o Bytes(dstConfig.wtf.server)

\* C2 as stated: once the run has completed, a data file of the destination
\* account tree that held "c1-s1" (or "c1 - s1") when the substitution pass
\* read it holds "c2-s2" ("c2 - s2") and no longer holds the source text.
C2_SourcePairRewritten ==
  (pc = "done" /\ SourcePair(Dash) # DestinationPair(Dash)) =>
    \A q \in DOMAIN walked : \A sep \in {Dash, SpacedDash} :
      Contains(walked[q].data, SourcePair(sep)) =>
        /\ q \in DOMAIN files
        /\ ~Contains(files[q], SourcePair(sep))
        /\ Contains(files[q], DestinationPair(sep))

\* the three patterns as the design describes them: character to character
\* and server to server, each applied to the result of the one before
ThreePatterns(data) ==
  LET c1 == Bytes(srcConfig.wtf.character)
      s1 == Bytes(srcConfig.wtf.server)
      c2 == Bytes(dstConfig.wtf.character)
      s2 == Bytes(dstConfig.wtf.server)
      first == ReplaceAll(data, c1 \o Dash \o s1, c2 \o Dash \o s2)
      second == ReplaceAll(first, c1 \o SpacedDash \o s1, c2 \o SpacedDash \o s2)
  IN ReplaceAll(second, s1 \o SpacedDash \o c1, s2 \o SpacedDash \o c2)

\* C9 as stated: the bytes handed to os.WriteFile for a visited data file are
\* the file's read content with all three patterns replaced, character by
\* character and server by server.
C9_AllThreePatternsWritten ==
  \A q \in DOMAIN walked : walked[q].updated = ThreePatterns(walked[q].data)

\* C3 as stated: after a second run with the same selections every file of
\* the destination account tree is as the first run left it.
C3_SecondRunChangesNothing ==
  (pc = "done" /\ runs >= 2) =>
    \A q \in DOMAIN files \cup DOMAIN afterFirst :
      Under(q, dstWtfAccountPath) =>
        /\ q \in DOMAIN files
        /\ q \in DOMAIN afterFirst
        /\ files[q] = afterFirst[q]

\* C3 as amended: when the source and destination account directories
\* differ, every file the run copies to the destination is, after a later
\* run, as the first run left it.
C3_CopiedFilesStable ==
  (pc = "done" /\ runs >= 2 /\ srcWtfAccountPath # dstWtfAccountPath) =>
    \A q \in DOMAIN copyWrote :
      /\ q \in DOMAIN files
      /\ q \in DOMAIN afterFirst
      /\ files[q] = afterFirst[q]

\* a second run over distinct account trees in which a copied data file was
\* rewritten and a data file that is not copied changed again
C3_Witness ==
  /\ pc = "done"
  /\ runs = 2
  /\ srcWtfAccountPath # dstWtfAccountPath
  /\ \E q \in DOMAIN copyWrote \cap DOMAIN walked :
       walked[q].updated # walked[q].data
  /\ \E q \in DOMAIN files \ DOMAIN copyWrote : files[q] # afterFirst[q]

\* the fixed artifacts in the order main copies them
FixedSources ==
  [i \in 1..(Len(accountFilesToCopy) + Len(characterFilesToCopy)) |->
     IF i <= Len(accountFilesToCopy)
     THEN Join(AccountPath(srcConfig), accountFilesToCopy[i])
     ELSE Join(CharacterPath(srcConfig),
               characterFilesToCopy[i - Len(accountFilesToCopy)])]
FixedDestinations ==
  [i \in 1..(Len(accountFilesToCopy) + Len(characterFilesToCopy)) |->
     IF i <= Len(accountFilesToCopy)
     THEN Join(AccountPath(dstConfig), accountFilesToCopy[i])
     ELSE Join(CharacterPath(dstConfig),
               characterFilesToCopy[i - Len(accountFilesToCopy)])]

\* C4: when a fixed artifact is missing at the source the run never gets past
\* it: only the files before it are copied, in order, and they stay in the
\* destination as copied; no saved variable is copied, no data file is
\* rewritten, no cache marker is removed, and success is never reported.
C4_MissingArtifactAborts ==
  \A k \in DOMAIN FixedSources :
    FixedSources[k] \notin DOMAIN initial =>
      /\ pc \in {"account", "character", "fatal"}
      /\ runs = 1
      /\ Len(copiedLog) < k
      /\ copiedLog = SubSeq(FixedSources, 1, Len(copiedLog))
      /\ pc = "fatal" =>
           /\ fatalAt.phase \in {"account", "character"}
           /\ fatalAt.path = FixedSources[Len(copiedLog) + 1]
      /\ \A i \in 1..Len(copiedLog) :
           /\ FixedDestinations[i] \in DOMAIN files
           /\ files[FixedDestinations[i]] = copyWrote[FixedDestinations[i]]
           /\ FixedSources[i] # FixedDestinations[i] =>
                files[FixedDestinations[i]] = initial[FixedSources[i]]
      /\ \A q \in DOMAIN initial :
           (\A i \in DOMAIN FixedDestinations : q # FixedDestinations[i]) =>
             (q \in DOMAIN files /\ files[q] = initial[q])
      /\ walked = <<>>

\* the run aborted at a missing character-scope artifact, after the account
\* files and at least one character file had been copied
C4_Witness ==
  /\ pc = "fatal"
  /\ fatalAt.phase = "character"
  /\ lastErr = "ENOENT"
  /\ fatalAt.path \notin DOMAIN initial
  /\ Len(copiedLog) > Len(accountFilesToCopy)

\* C5 as stated: a run in which an I/O operation failed (other than removing
\* a cache marker that does not exist) never reports success.
C5_NoSuccessAfterIoError ==
  pc = "done" => ~ioFailed

\* C7 as stated: after the clean-up neither cache marker exists, and a marker
\* that does not exist never aborts the run.
C7_AbsentMarkerIsNoOp ==
  /\ pc = "done" =>
       /\ Join(dstWtfAccountPath, "cache.md5") \notin DOMAIN files
       /\ Join(dstWtfCharacterPath, "cache.md5") \notin DOMAIN files
  /\ (pc = "fatal" /\ fatalAt.phase \in {"cleanAccount", "cleanCharacter"}) =>
       lastErr # "ENOENT"

\* C10 as stated: when the two selections name different characters, the
\* files of the source character directory are after the run as before it.
C10_SourceCharacterUntouched ==
  (pc = "done" /\ srcConfig.wtf.character # dstConfig.wtf.character) =>
    \A q \in DOMAIN initial :
      Under(q, srcWtfCharacterPath) =>
        (q \in DOMAIN files /\ files[q] = initial[q])

====
